---- MODULE Spec2Model ----
(***************************************************************************)
(* Model of src/file_manager/main.py (class NFileJ): the editor launcher   *)
(* run_editor, the file-selection handler that calls it, and the two key   *)
(* bindings (toggle_dark, quit).                                           *)
(*                                                                         *)
(* run_editor is one synchronous call made from a message handler, so it   *)
(* is split only where the code itself waits on the outside world: at the  *)
(* process spawn and at the wait for the child's exit.  pc is the position *)
(* of the single UI thread.                                                *)
(***************************************************************************)
EXTENDS Integers, Sequences, FiniteSets, TLC

VARIABLES
    pc,          \* position of the UI thread (see PCs)
    platform,    \* sys.platform
    environ,     \* os.environ, a function from variable names to strings
    theme,       \* App.theme
    display,     \* who owns the terminal: "application" or "suspended"
    file_path,   \* argument of the current / last run_editor call
    command,     \* arguments of the subprocess.run call of that invocation
    child,       \* the child process: "none", "spawning", "running"
    children,    \* number of child editor processes currently running
    outcome,     \* how the subprocess.run call of that invocation ended
    printed,     \* what that invocation printed
    propagated,  \* an exception left run_editor
    suspends,    \* display suspensions made by that invocation
    resumes,     \* display resumptions made by that invocation
    launches,    \* subprocess.run calls made by that invocation
    envRead,     \* that invocation evaluated os.environ.get
    themeHist    \* the themes seen by the last (at most two) toggles

vars == <<pc, platform, environ, theme, display, file_path, command, child,
          children, outcome, printed, propagated, suspends, resumes,
          launches, envRead, themeHist>>

---------------------------------------------------------------------------
(* Bounds and input sets *)

\* child exit statuses range over 0..MaxExit
MaxExit == 2

ExitStatuses == 0..MaxExit

Platforms == {"win32", "linux", "darwin"}

Paths == {"/home/user/notes.txt", "C:\\Users\\u\\a.txt", "my \"x\".txt"}

NoEnv == [k \in {} |-> ""]

Environs ==
    { NoEnv,
      [k \in {"EDITOR"} |-> "vim"],
      [k \in {"EDITOR"} |-> "code -w"],
      [k \in {"EDITOR"} |-> ""],
      [k \in {"VISUAL"} |-> "emacs"] }

Themes == {"textual-dark", "textual-light", "nord"}

PCs == {"Idle", "Suspended", "ChildRunning", "AfterTry", "Resumed",
        "Crashed", "Quit"}

---------------------------------------------------------------------------
(* Python builtins the handler relies on *)

\* the exception classes subprocess.run raises when the launch fails
LaunchErrors == {"FileNotFoundError", "PermissionError", "OSError"}

\* direct base class in Python's exception hierarchy
BaseOf(cls) ==
    CASE cls = "FileNotFoundError" -> "OSError"
      [] cls = "PermissionError"   -> "OSError"
      [] cls = "OSError"           -> "Exception"
      [] cls = "Exception"         -> "BaseException"
      [] OTHER                     -> "object"

RECURSIVE IsSubclass(_, _)
IsSubclass(cls, of) ==
    IF cls = of THEN TRUE
    ELSE IF cls = "object" THEN FALSE
    ELSE IsSubclass(BaseOf(cls), of)

\* str(e) of a launch error
ErrText(cls) ==
    CASE cls = "FileNotFoundError" -> "[Errno 2] No such file or directory"
      [] cls = "PermissionError"   -> "[Errno 13] Permission denied"
      [] OTHER                     -> "[Errno 8] Exec format error"

\* os.environ.get(key, default)
EnvGet(env, key, default) ==
    IF key \in DOMAIN env THEN env[key] ELSE default

---------------------------------------------------------------------------
(* The invocation record *)

NoCommand == [shell |-> FALSE, args |-> <<>>]

NoOutcome == [kind |-> "none", status |-> 0, error |-> ""]

Exited(status) == [kind |-> "exit", status |-> status, error |-> ""]

Raised(cls) == [kind |-> "error", status |-> 0, error |-> cls]

\* the child-process failures of the error taxonomy
Failed(o) == o.kind = "error" \/ (o.kind = "exit" /\ o.status # 0)

---------------------------------------------------------------------------
(* Command resolution: lines 31-36 *)

EditorVi(env) == EnvGet(env, "EDITOR", "vi")

\* os.environ.get('EDITOR', 'nano')
Editor(env) == EnvGet(env, "EDITOR", "nano")

WinCommandUnquoted(path) == "start /wait " \o path

\* f'start /wait "" "{file_path}"'
WinCommand(path) == "start /wait \"\" \"" \o path \o "\""

ResolveShellJoin(pf, env, path) ==
    IF pf = "win32"
    THEN [shell |-> TRUE, args |-> WinCommand(path), readEnv |-> FALSE]
    ELSE [shell |-> TRUE, args |-> Editor(env) \o " " \o path,
          readEnv |-> TRUE]

\* the arguments handed to subprocess.run (shell=, args), and whether the
\* branch taken evaluates os.environ.get
ResolveCommand(pf, env, path) ==
    IF pf = "win32"
    THEN [shell |-> TRUE, args |-> WinCommand(path), readEnv |-> FALSE]
    ELSE [shell |-> FALSE, args |-> <<Editor(env), path>>, readEnv |-> TRUE]

---------------------------------------------------------------------------
(* Initial state: the app is running, nothing has been selected *)

Init ==
    /\ pc = "Idle"
    /\ platform \in Platforms
    /\ environ \in Environs
    /\ theme \in Themes
    /\ display = "application"
    /\ file_path = ""
    /\ command = NoCommand
    /\ child = "none"
    /\ children = 0
    /\ outcome = NoOutcome
    /\ printed = <<>>
    /\ propagated = FALSE
    /\ suspends = 0
    /\ resumes = 0
    /\ launches = 0
    /\ envRead = FALSE
    /\ themeHist = <<>>

---------------------------------------------------------------------------
(* Actions *)

FileSelectedAnyTime(p) ==
    /\ pc \in {"Idle", "ChildRunning"}
    /\ pc' = "Suspended"
    /\ file_path' = p
    /\ display' = "suspended"
    /\ suspends' = 1
    /\ resumes' = 0
    /\ launches' = 0
    /\ envRead' = FALSE
    /\ command' = NoCommand
    /\ outcome' = NoOutcome
    /\ printed' = <<>>
    /\ UNCHANGED <<platform, environ, theme, child, children, propagated,
                   themeHist>>

\* on_directory_tree_file_selected, up to entering `with self.suspend()`
FileSelected(p) ==
    /\ pc = "Idle"
    /\ pc' = "Suspended"
    /\ file_path' = p
    /\ display' = "suspended"
    /\ suspends' = 1
    /\ resumes' = 0
    /\ launches' = 0
    /\ envRead' = FALSE
    /\ command' = NoCommand
    /\ outcome' = NoOutcome
    /\ printed' = <<>>
    /\ UNCHANGED <<platform, environ, theme, child, children, propagated,
                   themeHist>>

\* the try body: resolve the command and call subprocess.run
RunCommand ==
    /\ pc = "Suspended"
    /\ pc' = "ChildRunning"
    /\ LET r == ResolveCommand(platform, environ, file_path)
       IN  /\ command' = [shell |-> r.shell, args |-> r.args]
           /\ envRead' = r.readEnv
    /\ launches' = launches + 1
    /\ child' = "spawning"
    /\ UNCHANGED <<platform, environ, theme, display, file_path, children,
                   outcome, printed, propagated, suspends, resumes, themeHist>>

\* subprocess.run created the child process and now waits for it
SpawnOk ==
    /\ pc = "ChildRunning"
    /\ child = "spawning"
    /\ child' = "running"
    /\ children' = children + 1
    /\ UNCHANGED <<pc, platform, environ, theme, display, file_path, command,
                   outcome, printed, propagated, suspends, resumes, launches,
                   envRead, themeHist>>

SpawnFailsRetry(cls) ==
    /\ pc = "ChildRunning"
    /\ child = "spawning"
    /\ child' = "none"
    /\ outcome' = Raised(cls)
    /\ printed' = Append(printed, "Error opening editor: " \o ErrText(cls))
    /\ pc' = "Suspended"
    /\ UNCHANGED <<platform, environ, theme, display, file_path, command,
                   children, propagated, suspends, resumes, launches, envRead,
                   themeHist>>

\* subprocess.run raised: `except Exception as e: print(...)`
SpawnFails(cls) ==
    /\ pc = "ChildRunning"
    /\ child = "spawning"
    /\ child' = "none"
    /\ outcome' = Raised(cls)
    /\ IF IsSubclass(cls, "Exception")
       THEN /\ printed' = Append(printed,
                                 "Error opening editor: " \o ErrText(cls))
            /\ pc' = "AfterTry"
            /\ propagated' = propagated
       ELSE /\ printed' = printed
            /\ pc' = "Crashed"
            /\ propagated' = TRUE
    /\ UNCHANGED <<platform, environ, theme, display, file_path, command,
                   children, suspends, resumes, launches, envRead, themeHist>>

ChildWaitTimeout(status) ==
    /\ pc = "ChildRunning"
    /\ child = "running"
    /\ outcome' = Raised("TimeoutExpired")
    /\ pc' = "AfterTry"
    /\ UNCHANGED <<platform, environ, theme, display, file_path, command,
                   child, children, printed, propagated, suspends, resumes,
                   launches, envRead, themeHist>>

\* the child exits; subprocess.run returns a CompletedProcess (no check=True,
\* so the return code is not inspected and nothing is raised)
ChildExits(status) ==
    /\ pc = "ChildRunning"
    /\ child = "running"
    /\ child' = "none"
    /\ children' = children - 1
    /\ outcome' = Exited(status)
    /\ pc' = "AfterTry"
    /\ UNCHANGED <<platform, environ, theme, display, file_path, command,
                   printed, propagated, suspends, resumes, launches, envRead,
                   themeHist>>

ExitSuspendOnSuccess ==
    /\ pc = "AfterTry"
    /\ pc' = "Resumed"
    /\ IF outcome.kind = "error"
       THEN UNCHANGED <<display, resumes>>
       ELSE display' = "application" /\ resumes' = resumes + 1
    /\ UNCHANGED <<platform, environ, theme, file_path, command, child,
                   children, outcome, printed, propagated, suspends, launches,
                   envRead, themeHist>>

\* leaving the `with self.suspend()` block
ExitSuspend ==
    /\ pc = "AfterTry"
    /\ pc' = "Resumed"
    /\ display' = "application"
    /\ resumes' = resumes + 1
    /\ UNCHANGED <<platform, environ, theme, file_path, command, child,
                   children, outcome, printed, propagated, suspends, launches,
                   envRead, themeHist>>

\* run_editor and the handler return to the message loop
Return ==
    /\ pc = "Resumed"
    /\ pc' = "Idle"
    /\ UNCHANGED <<platform, environ, theme, display, file_path, command,
                   child, children, outcome, printed, propagated, suspends,
                   resumes, launches, envRead, themeHist>>

LastTwo(s) == IF Len(s) > 2 THEN Tail(s) ELSE s

ToggleDarkInverted ==
    /\ pc = "Idle"
    /\ theme' = (IF theme = "textual-light" THEN "textual-dark"
                                             ELSE "textual-light")
    /\ themeHist' = LastTwo(Append(themeHist, theme))
    /\ UNCHANGED <<pc, platform, environ, display, file_path, command, child,
                   children, outcome, printed, propagated, suspends, resumes,
                   launches, envRead>>

\* action_toggle_dark
ToggleDark ==
    /\ pc = "Idle"
    /\ theme' = (IF theme = "textual-dark" THEN "textual-light"
                                            ELSE "textual-dark")
    /\ themeHist' = LastTwo(Append(themeHist, theme))
    /\ UNCHANGED <<pc, platform, environ, display, file_path, command, child,
                   children, outcome, printed, propagated, suspends, resumes,
                   launches, envRead>>

\* the "q" binding
Quit ==
    /\ pc = "Idle"
    /\ pc' = "Quit"
    /\ UNCHANGED <<platform, environ, theme, display, file_path, command,
                   child, children, outcome, printed, propagated, suspends,
                   resumes, launches, envRead, themeHist>>

Next ==
    \/ \E p \in Paths : FileSelected(p)
    \/ RunCommand
    \/ SpawnOk
    \/ \E cls \in LaunchErrors : SpawnFails(cls)
    \/ \E status \in ExitStatuses : ChildExits(status)
    \/ ExitSuspend
    \/ Return
    \/ ToggleDark
    \/ Quit

Spec == Init /\ [][Next]_vars

\* The call runs to completion once made (one thread, no awaits), the OS
\* decides every spawn, and every launched child eventually exits.
LiveSpec ==
    /\ Spec
    /\ WF_vars(RunCommand)
    /\ WF_vars(SpawnOk \/ \E cls \in LaunchErrors : SpawnFails(cls))
    /\ WF_vars(\E status \in ExitStatuses : ChildExits(status))
    /\ WF_vars(ExitSuspend)
    /\ WF_vars(Return)

---------------------------------------------------------------------------
(* Properties *)

Launching == pc \in {"Suspended", "ChildRunning", "AfterTry"}

Called == launches > 0

\* C1: every run_editor call suspends the display exactly once and resumes
\* it exactly once, whatever the platform and however the child ends; the
\* resumption precedes the return to the UI, so the UI is never Idle with
\* the display still suspended.
C1_SuspendResumePaired ==
    /\ pc \in {"Idle", "Quit"} => display = "application"
    /\ Launching => display = "suspended" /\ suspends = 1 /\ resumes = 0
    /\ pc = "Resumed" => display = "application" /\ suspends = 1 /\ resumes = 1
    /\ (pc = "Idle" /\ Called) => suspends = 1 /\ resumes = 1
    /\ pc # "Crashed"

C1_Witness ==
    /\ pc = "Idle"
    /\ outcome.kind = "error"
    /\ platform = "win32"
    /\ suspends = 1
    /\ resumes = 1
    /\ display = "application"

\* C2: every failure of the child (launch error or non-zero exit) is caught
\* inside run_editor, a diagnostic is printed, and control returns to the
\* UI without the failure propagating.
C2_FailureCaughtAndReported ==
    (pc \in {"AfterTry", "Resumed", "Idle", "Crashed"} /\ Failed(outcome))
        => (Len(printed) = 1 /\ ~propagated /\ pc # "Crashed")

\* C3: whenever the child exits with a non-zero status a diagnostic has
\* been printed by the time the UI is Idle again.
C3_NonZeroExitPrintsDiagnostic ==
    (pc = "Idle" /\ outcome.kind = "exit" /\ outcome.status # 0)
        => Len(printed) >= 1

\* C4: on a non-Windows platform with EDITOR set to E, the launched command
\* is the two-element argument vector <<E, targetPath>>, run without a
\* shell, E unmodified and unsplit.
C4_PosixCommandIsEditorAndPath ==
    (Called /\ platform # "win32" /\ "EDITOR" \in DOMAIN environ)
        => /\ ~command.shell
           /\ Len(command.args) = 2
           /\ command.args = <<environ["EDITOR"], file_path>>

C4_Witness ==
    /\ Called
    /\ platform = "linux"
    /\ "EDITOR" \in DOMAIN environ
    /\ environ["EDITOR"] = "code -w"
    /\ ~command.shell
    /\ command.args = <<"code -w", "/home/user/notes.txt">>

\* C5 as stated: with EDITOR unset the resolved command uses the fallback
\* editor nano, for every targetPath (and every platform).
C5_FallbackEditorEverywhere ==
    (Called /\ "EDITOR" \notin DOMAIN environ)
        => (~command.shell /\ command.args[1] = "nano")

\* C5 amended: on a non-Windows platform with EDITOR unset the resolved
\* command is <<"nano", targetPath>>.
C5_FallbackEditorOnPosix ==
    (Called /\ platform # "win32" /\ "EDITOR" \notin DOMAIN environ)
        => (~command.shell /\ command.args = <<"nano", file_path>>)

C5_Witness ==
    /\ Called
    /\ platform = "darwin"
    /\ "EDITOR" \notin DOMAIN environ
    /\ "VISUAL" \in DOMAIN environ
    /\ ~command.shell
    /\ command.args = <<"nano", "my \"x\".txt">>

\* C6: on win32 the launched command is the shell command string
\* start /wait "" "<targetPath>" with the path inserted verbatim, whatever
\* EDITOR is, and EDITOR is never read.
C6_WindowsCommand ==
    (Called /\ platform = "win32")
        => /\ command.shell
           /\ command.args = "start /wait \"\" \"" \o file_path \o "\""
           /\ ~envRead

C6_Witness ==
    /\ Called
    /\ platform = "win32"
    /\ "EDITOR" \in DOMAIN environ
    /\ file_path = "C:\\Users\\u\\a.txt"
    /\ command.shell
    /\ command.args = "start /wait \"\" \"C:\\Users\\u\\a.txt\""

PhaseSteps ==
    { <<"Idle", "Suspended">>, <<"Suspended", "ChildRunning">>,
      <<"ChildRunning", "AfterTry">>, <<"AfterTry", "Resumed">>,
      <<"Resumed", "Idle">>, <<"Idle", "Quit">> }

\* C7: a selection event drives one pass Idle -> Suspended -> ChildRunning
\* -> Resumed -> Idle in that order (AfterTry is the instant between the
\* end of subprocess.run and the resumption): the child starts only with
\* the display suspended, the display resumes only after the child has
\* ended or failed to start, and one launch attempt is made per event.
C7_PhaseOrder ==
    /\ [][pc' # pc => <<pc, pc'>> \in PhaseSteps]_vars
    /\ [][child' # "none" => display = "suspended" /\ display' = "suspended"]_vars
    /\ [][display' # display /\ display' = "application"
            => child = "none" /\ children = 0 /\ outcome.kind # "none"]_vars
    /\ [][launches' # launches
            => \/ launches' = 0 /\ pc = "Idle" /\ pc' = "Suspended"
               \/ launches' = 1 /\ pc = "Suspended"]_vars
    /\ [](pc \in {"ChildRunning", "AfterTry", "Resumed"} => launches = 1)

C7_Witness ==
    /\ pc = "Idle"
    /\ outcome.kind = "error"
    /\ launches = 1
    /\ Len(printed) = 1

\* C8: between suspension and resumption no other UI work is handled (no
\* toggle, no quit, no second selection), so at most one child editor runs
\* at a time and the theme is constant while a child runs.
C8_NoUIWorkDuringLaunch ==
    /\ [](children <= 1)
    /\ [][display = "suspended"
            => /\ theme' = theme
               /\ themeHist' = themeHist
               /\ file_path' = file_path
               /\ pc' \notin {"Quit", "Suspended"}]_vars
    /\ [](child = "running" => display = "suspended" /\ pc = "ChildRunning")

C8_Witness ==
    /\ child = "running"
    /\ children = 1
    /\ display = "suspended"
    /\ theme = "nord"

\* C9: the wait is unbounded and cannot be cancelled from inside the app:
\* while the child runs the only step is the child's exit, the display is
\* resumed only once the child has exited or failed to start, and, given
\* that every launched child eventually exits, every selection is
\* eventually followed by Idle.
C9_UnboundedWait ==
    /\ [][child = "running" => child' = "none" /\ outcome'.kind = "exit"]_vars
    /\ [](pc \in {"AfterTry", "Resumed"}
            => child = "none" /\ outcome.kind \in {"exit", "error"})
    /\ (pc \in {"Suspended", "ChildRunning", "AfterTry", "Resumed"})
          ~> (pc = "Idle")

C9_Witness ==
    /\ pc = "Idle"
    /\ outcome.kind = "exit"
    /\ outcome.status = 0
    /\ resumes = 1

DarkLight == {"textual-dark", "textual-light"}

\* C10: only the toggle changes the theme; it sets textual-light from
\* textual-dark and textual-dark from anything else; run_editor leaves the
\* theme alone.  So after at least one toggle the theme is dark or light,
\* two toggles restore a theme that started in that set, and the toggle is
\* available and flips the theme after a failed launch.
C10_ThemeToggle ==
    /\ [][themeHist' # themeHist
            => theme' = (IF theme = "textual-dark" THEN "textual-light"
                                                    ELSE "textual-dark")]_vars
    /\ [][theme' # theme => themeHist' # themeHist /\ pc = "Idle"]_vars
    /\ [](Len(themeHist) >= 1 => theme \in DarkLight)
    /\ [](Len(themeHist) = 2 /\ themeHist[1] \in DarkLight
            => theme = themeHist[1])
    /\ []((pc = "Idle" /\ Failed(outcome)) => ENABLED ToggleDark)
    /\ [][(Failed(outcome) /\ themeHist' # themeHist /\ theme \in DarkLight)
            => theme' \in DarkLight \ {theme}]_vars

C10_Witness ==
    /\ pc = "Idle"
    /\ Failed(outcome)
    /\ Len(themeHist) = 2
    /\ themeHist[1] = "textual-light"
    /\ theme = "textual-light"

====
